---- MODULE Spec2Model ----
(***************************************************************************)
(* Inference-configuration compatibility and migration engine of the       *)
(* PocketPal client: the schema migrator, the factory and validator, the   *)
(* backend resolver, the compatibility rule engine, the device catalog     *)
(* and the settings screen's selection handlers.                           *)
(*                                                                         *)
(* A JavaScript object is modelled as a record with one field per key and  *)
(* a field st that gives each key's status:                                *)
(*   "absent"     the key is not in the object          (!(k in o))        *)
(*   "undefined"  the key is in the object, value undefined                *)
(*   "value"      the key is in the object with the value of the field     *)
(* A key that is not "value" carries the filler of its type (0, "", FALSE, *)
(* <<>>), so that two objects are equal exactly when the records are.      *)
(* A boolean use_mmap is written "bool:true" / "bool:false" to keep it     *)
(* apart from the strings "true" / "false".                                *)
(***************************************************************************)
EXTENDS Integers, Sequences, FiniteSets, TLC

VARIABLES
    os,            \* Platform.OS
    probe,         \* outcome of getBackendDevicesInfo on this hardware
    x,             \* the blob handed to migrateContextInitParams
    m1,            \* migrateContextInitParams(x)
    m2,            \* migrateContextInitParams(m1)
    chain,         \* the version tags seen along the first migration
    made,          \* createContextInitParams(x)
    checked,       \* validateContextInitParams(x)
    pc,            \* "idle", "start", "once", "twice", "created", "validated"
    rule,          \* the rule engine's inputs and the results of its calls
    contextInitParams,  \* modelStore.contextInitParams
    deviceOptions,      \* SettingsScreen state: the loaded device catalog
    optionsLoaded,      \* whether loadDeviceOptions has resolved
    currentBackend,     \* SettingsScreen state
    inflight,           \* the inferBackendType calls that have not resolved
    last,               \* the last handler that ran, with what it was given
    dev,           \* one call of a device utility: its inputs and its result
    chat           \* the chat session hook: the stores' flags and the send in progress

vars ==
    <<os, probe, x, m1, m2, chain, made, checked, pc, rule, contextInitParams,
      deviceOptions, optionsLoaded, currentBackend, inflight, last, dev, chat>>

migVars == <<x, m1, m2, chain, made, checked, pc>>

screenVars ==
    <<contextInitParams, deviceOptions, optionsLoaded, currentBackend, inflight, last>>

Platforms == {"ios", "android"}

----------------------------------------------------------------------------
(* Objects *)

Keys ==
    {"version", "n_context", "n_ctx", "n_batch", "n_ubatch", "n_threads",
     "cache_type_k", "cache_type_v", "n_gpu_layers", "use_mlock", "use_mmap",
     "no_gpu_devices", "flash_attn", "flash_attn_type", "devices",
     "kv_unified", "n_parallel"}

EmptyObject ==
    [st |-> [k \in Keys |-> "absent"],
     version |-> "", n_context |-> 0, n_ctx |-> 0, n_batch |-> 0,
     n_ubatch |-> 0, n_threads |-> 0, cache_type_k |-> "",
     cache_type_v |-> "", n_gpu_layers |-> 0, use_mlock |-> FALSE,
     use_mmap |-> "", no_gpu_devices |-> FALSE, flash_attn |-> FALSE,
     flash_attn_type |-> "", devices |-> <<>>, kv_unified |-> FALSE,
     n_parallel |-> 0]

\* k in o
In(k, o) == o.st[k] # "absent"

\* o.k === undefined
Undefined(o, k) == o.st[k] # "value"

----------------------------------------------------------------------------
(* Compatibility rule engine: src/src/utils/flashAttnCompatibility.ts *)

\* The members of the CacheType enum, in the order of the option lists.
CacheTypeList == <<"f16", "f32", "q8_0", "q5_1", "q5_0", "q4_1", "q4_0", "iq4_nl">>

CacheTypes == {CacheTypeList[i] : i \in DOMAIN CacheTypeList}

FlashAttnTypes == {"auto", "on", "off"}

BackendTypes == {"metal", "opencl", "hexagon", "cpu", "blas"}

\* A verdict {safe, reason?}: reason is {} when undefined, {text} otherwise.
Verdict(safe, reason) == [safe |-> safe, reason |-> reason]

isQuantizedCacheType(cacheType) ==
    /\ cacheType # "f16"
    /\ cacheType # "f32"

isCacheTypeVSafe_OffAllowed(cacheTypeV, flashAttnType, backend) ==
    IF ~isQuantizedCacheType(cacheTypeV) THEN Verdict(TRUE, {})
    ELSE IF flashAttnType = "on" \/ flashAttnType = "off" THEN
        IF backend = "opencl" THEN
            Verdict(FALSE, {"OpenCL does not support flash attention (required for quantized V cache)"})
        ELSE IF backend = "hexagon" THEN
            Verdict(FALSE, {"Hexagon flash attention support varies by device (use off with F16/F32 for safety)"})
        ELSE Verdict(TRUE, {})
    ELSE IF backend = "opencl" THEN
        Verdict(FALSE, {"OpenCL auto-disables flash attention, quantized V cache will fail at runtime"})
    ELSE IF backend = "hexagon" THEN
        Verdict(FALSE, {"Hexagon flash attention support varies by device; quantized V cache may fail at runtime"})
    ELSE Verdict(TRUE, {})

\* The auto branch on hexagon refusing without saying why.
isCacheTypeVSafe_SilentHexagon(cacheTypeV, flashAttnType, backend) ==
    IF ~isQuantizedCacheType(cacheTypeV) THEN Verdict(TRUE, {})
    ELSE IF flashAttnType = "off" THEN
        Verdict(FALSE, {"Quantized V cache requires flash attention to be enabled"})
    ELSE IF flashAttnType = "on" THEN
        IF backend = "opencl" THEN
            Verdict(FALSE, {"OpenCL does not support flash attention (required for quantized V cache)"})
        ELSE IF backend = "hexagon" THEN
            Verdict(FALSE, {"Hexagon flash attention support varies by device (use off with F16/F32 for safety)"})
        ELSE Verdict(TRUE, {})
    ELSE IF backend = "opencl" THEN
        Verdict(FALSE, {"OpenCL auto-disables flash attention, quantized V cache will fail at runtime"})
    ELSE IF backend = "hexagon" THEN Verdict(FALSE, {})
    ELSE Verdict(TRUE, {})

isCacheTypeVSafe(cacheTypeV, flashAttnType, backend) ==
    IF ~isQuantizedCacheType(cacheTypeV) THEN Verdict(TRUE, {})
    ELSE IF flashAttnType = "off" THEN
        Verdict(FALSE, {"Quantized V cache requires flash attention to be enabled"})
    ELSE IF flashAttnType = "on" THEN
        IF backend = "opencl" THEN
            Verdict(FALSE, {"OpenCL does not support flash attention (required for quantized V cache)"})
        ELSE IF backend = "hexagon" THEN
            Verdict(FALSE, {"Hexagon flash attention support varies by device (use off with F16/F32 for safety)"})
        ELSE Verdict(TRUE, {})
    ELSE IF backend = "opencl" THEN
        Verdict(FALSE, {"OpenCL auto-disables flash attention, quantized V cache will fail at runtime"})
    ELSE IF backend = "hexagon" THEN
        Verdict(FALSE, {"Hexagon flash attention support varies by device; quantized V cache may fail at runtime"})
    ELSE Verdict(TRUE, {})

isCacheTypeKSafe_AsV(cacheTypeK, flashAttnType, backend) ==
    isCacheTypeVSafe(cacheTypeK, flashAttnType, backend)

isCacheTypeKSafe(cacheTypeK, flashAttnType, backend) ==
    Verdict(TRUE, {})

\* One entry of a derived option list: {...option, disabled, reason}.
OptionEntry(value, validation) ==
    [value |-> value, disabled |-> ~validation.safe, reason |-> validation.reason]

getAllowedCacheTypeVOptions_DropDisabled(flashAttnType, backend) ==
    SelectSeq(
        [i \in DOMAIN CacheTypeList |->
            OptionEntry(CacheTypeList[i],
                        isCacheTypeVSafe(CacheTypeList[i], flashAttnType, backend))],
        LAMBDA e : ~e.disabled)

getAllowedCacheTypeVOptions(flashAttnType, backend) ==
    [i \in DOMAIN CacheTypeList |->
        OptionEntry(CacheTypeList[i],
                    isCacheTypeVSafe(CacheTypeList[i], flashAttnType, backend))]

getAllowedCacheTypeKOptions(flashAttnType, backend) ==
    [i \in DOMAIN CacheTypeList |->
        OptionEntry(CacheTypeList[i],
                    isCacheTypeKSafe(CacheTypeList[i], flashAttnType, backend))]

----------------------------------------------------------------------------
(* Schema migrator, factory and validator:                                 *)
(* src/src/utils/flashAttnCompatibility.ts                                 *)

\* The version constant left at its value before the step to "2.0" was added.
CURRENT_CONTEXT_INIT_PARAMS_VERSION_NotBumped == "1.0"

CURRENT_CONTEXT_INIT_PARAMS_VERSION == "2.0"

\* The platform defaults the migrator and the factory share.
DefaultUseMmap(platform) == IF platform = "android" THEN "smart" ELSE "true"

DefaultFlashAttnType(platform) == IF platform = "ios" THEN "auto" ELSE "off"

\* !o.version and !o.flash_attn_type: undefined or the empty string.
Falsy(o, k) == Undefined(o, k) \/ o[k] = ""

\* typeof o.use_mmap === 'boolean'
IsBooleanMmap(o) ==
    o.st["use_mmap"] = "value" /\ o.use_mmap \in {"bool:true", "bool:false"}

\* The object the writes of a call go to: a copy of the argument, or the
\* argument itself.  The argument after the call is untouched in the first
\* case and is the returned object in the second.
ArgumentAfter(target, params, result) ==
    IF target = "copy" THEN params ELSE result

\* The migrator working on its argument instead of a clone.
MigrationTarget_Argument == "argument"

\* Line 305: migratedParams is {...params}, and every later write and the
\* delete of line 319 go to migratedParams.
MigrationTarget == "copy"

\* Lines 274-293: the factory returns a new object literal and assigns to
\* nothing else.
FactoryTarget == "copy"

\* Lines 305-310: clone the argument, tag an unversioned blob "0.0".
CloneAndTag(params) ==
    IF Undefined(params, "version")
    THEN [params EXCEPT !.version = "0.0", !.st["version"] = "value"]
    ELSE params

\* The rename overwriting an n_ctx that is already there.
RenameNContext_Overwrite(p) ==
    IF In("n_context", p)
    THEN [p EXCEPT !.n_ctx = p.n_context,
                   !.st["n_ctx"] = p.st["n_context"],
                   !.n_context = 0,
                   !.st["n_context"] = "absent"]
    ELSE p

\* Lines 317-320: n_context -> n_ctx when n_ctx is not a key.
RenameNContext(p) ==
    IF In("n_context", p) /\ ~In("n_ctx", p)
    THEN [p EXCEPT !.n_ctx = p.n_context,
                   !.st["n_ctx"] = p.st["n_context"],
                   !.n_context = 0,
                   !.st["n_context"] = "absent"]
    ELSE p

\* The defaults of version 1.0 with use_mmap "smart" on every platform.
DefaultsV1_SmartEverywhere(p, platform) ==
    LET a == IF Undefined(p, "use_mlock")
             THEN [p EXCEPT !.use_mlock = FALSE, !.st["use_mlock"] = "value"]
             ELSE p
        b == IF Undefined(a, "use_mmap")
             THEN [a EXCEPT !.use_mmap = "smart", !.st["use_mmap"] = "value"]
             ELSE IF IsBooleanMmap(a)
             THEN [a EXCEPT !.use_mmap =
                                IF a.use_mmap = "bool:true" THEN "true" ELSE "false"]
             ELSE a
        c == IF Undefined(b, "no_gpu_devices")
             THEN [b EXCEPT !.no_gpu_devices = FALSE,
                            !.st["no_gpu_devices"] = "value"]
             ELSE b
    IN  c

\* Lines 323-336: defaults of the fields version 1.0 requires.
DefaultsV1(p, platform) ==
    LET a == IF Undefined(p, "use_mlock")
             THEN [p EXCEPT !.use_mlock = FALSE, !.st["use_mlock"] = "value"]
             ELSE p
        b == IF Undefined(a, "use_mmap")
             THEN [a EXCEPT !.use_mmap = DefaultUseMmap(platform),
                            !.st["use_mmap"] = "value"]
             ELSE IF IsBooleanMmap(a)
             THEN [a EXCEPT !.use_mmap =
                                IF a.use_mmap = "bool:true" THEN "true" ELSE "false"]
             ELSE a
        c == IF Undefined(b, "no_gpu_devices")
             THEN [b EXCEPT !.no_gpu_devices = FALSE,
                            !.st["no_gpu_devices"] = "value"]
             ELSE b
    IN  c

\* Lines 313-339: the step "0.0" -> "1.0".
Step0to1(p, platform) ==
    IF (p.st["version"] = "value" /\ p.version = "0.0") \/ Falsy(p, "version")
    THEN [DefaultsV1(RenameNContext(p), platform)
             EXCEPT !.version = "1.0", !.st["version"] = "value"]
    ELSE p

\* The conversion resetting n_gpu_layers to 99 whatever the user had set.
MigrateNoGpuDevices_ResetsLayers(p) ==
    IF ~In("no_gpu_devices", p) THEN p
    ELSE IF p.st["no_gpu_devices"] = "value" /\ p.no_gpu_devices = TRUE
    THEN [p EXCEPT !.n_gpu_layers = 0, !.st["n_gpu_layers"] = "value",
                   !.devices = <<>>, !.st["devices"] = "undefined"]
    ELSE [p EXCEPT !.devices = <<>>, !.st["devices"] = "undefined",
                   !.n_gpu_layers = 99, !.st["n_gpu_layers"] = "value"]

\* Lines 344-363: no_gpu_devices -> devices / n_gpu_layers.
MigrateNoGpuDevices(p) ==
    IF ~In("no_gpu_devices", p) THEN p
    ELSE IF p.st["no_gpu_devices"] = "value" /\ p.no_gpu_devices = TRUE
    THEN [p EXCEPT !.n_gpu_layers = 0, !.st["n_gpu_layers"] = "value",
                   !.devices = <<>>, !.st["devices"] = "undefined"]
    ELSE LET d == [p EXCEPT !.devices = <<>>, !.st["devices"] = "undefined"]
         IN  IF Undefined(d, "n_gpu_layers") \/ d.n_gpu_layers = 0
             THEN [d EXCEPT !.n_gpu_layers = 99, !.st["n_gpu_layers"] = "value"]
             ELSE d

\* The conversion taking an enabled flash_attn for auto on every platform.
MigrateFlashAttn_IgnoresPlatform(p, platform) ==
    IF In("flash_attn", p) /\ p.st["flash_attn"] = "value"
    THEN [p EXCEPT !.flash_attn_type = IF p.flash_attn THEN "auto" ELSE "off",
                   !.st["flash_attn_type"] = "value"]
    ELSE IF Falsy(p, "flash_attn_type")
    THEN [p EXCEPT !.flash_attn_type = DefaultFlashAttnType(platform),
                   !.st["flash_attn_type"] = "value"]
    ELSE p

\* Lines 366-383: boolean flash_attn -> flash_attn_type.
MigrateFlashAttn(p, platform) ==
    IF In("flash_attn", p) /\ p.st["flash_attn"] = "value"
    THEN [p EXCEPT !.flash_attn_type =
                       IF p.flash_attn THEN DefaultFlashAttnType(platform) ELSE "off",
                   !.st["flash_attn_type"] = "value"]
    ELSE IF Falsy(p, "flash_attn_type")
    THEN [p EXCEPT !.flash_attn_type = DefaultFlashAttnType(platform),
                   !.st["flash_attn_type"] = "value"]
    ELSE p

\* The nudge raising every context size below the new default.
DefaultsV2_NudgesSmaller(p) ==
    LET a == IF Undefined(p, "kv_unified")
             THEN [p EXCEPT !.kv_unified = TRUE, !.st["kv_unified"] = "value"]
             ELSE p
        b == IF Undefined(a, "n_parallel")
             THEN [a EXCEPT !.n_parallel = 1, !.st["n_parallel"] = "value"]
             ELSE a
        c == IF b.st["n_ctx"] = "value" /\ b.n_ctx < 2048
             THEN [b EXCEPT !.n_ctx = 2048]
             ELSE b
    IN  c

\* Lines 386-397: the new required parameters and the context-size nudge.
DefaultsV2(p) ==
    LET a == IF Undefined(p, "kv_unified")
             THEN [p EXCEPT !.kv_unified = TRUE, !.st["kv_unified"] = "value"]
             ELSE p
        b == IF Undefined(a, "n_parallel")
             THEN [a EXCEPT !.n_parallel = 1, !.st["n_parallel"] = "value"]
             ELSE a
        c == IF b.st["n_ctx"] = "value" /\ b.n_ctx = 1024
             THEN [b EXCEPT !.n_ctx = 2048]
             ELSE b
    IN  c

\* The step "1.0" -> "2.0" stamping the version it started from.
Step1to2_StampsOld(p, platform) ==
    IF p.st["version"] = "value" /\ p.version = "1.0"
    THEN DefaultsV2(MigrateFlashAttn(MigrateNoGpuDevices(p), platform))
    ELSE p

\* The step "1.0" -> "2.0" firing again on a blob that is already at "2.0".
Step1to2_AlsoAtCurrent(p, platform) ==
    IF p.st["version"] = "value" /\ p.version \in {"1.0", "2.0"}
    THEN [DefaultsV2(MigrateFlashAttn(MigrateNoGpuDevices(p), platform))
             EXCEPT !.version = "2.0", !.st["version"] = "value"]
    ELSE p

\* Lines 342-400: the step "1.0" -> "2.0".
Step1to2(p, platform) ==
    IF p.st["version"] = "value" /\ p.version = "1.0"
    THEN [DefaultsV2(MigrateFlashAttn(MigrateNoGpuDevices(p), platform))
             EXCEPT !.version = "2.0", !.st["version"] = "value"]
    ELSE p

\* The final stamp left out.
Stamp_Skipped(p) == p

\* Line 403: the unconditional final stamp.
Stamp(p) ==
    [p EXCEPT !.version = CURRENT_CONTEXT_INIT_PARAMS_VERSION,
              !.st["version"] = "value"]

migrateContextInitParams(params, platform) ==
    Stamp(Step1to2(Step0to1(CloneAndTag(params), platform), platform))

\* The version tag before the call and after each of its four stages.
MigrationVersions(params, platform) ==
    LET c0 == CloneAndTag(params)
        c1 == Step0to1(c0, platform)
        c2 == Step1to2(c1, platform)
        c3 == Stamp(c2)
    IN  <<IF Undefined(params, "version") THEN "" ELSE params.version,
          c0.version, c1.version, c2.version, c3.version>>

\* The keys the object literal of createContextInitParams writes after the
\* spread of its argument (lines 275-292).
FactoryFields ==
    {"use_mmap", "version", "n_ctx", "n_batch", "n_ubatch", "n_threads",
     "cache_type_k", "cache_type_v", "n_gpu_layers", "use_mlock",
     "flash_attn_type", "devices", "kv_unified", "n_parallel"}

\* Lines 262-293 with the literal writing the keys in written: {...params}
\* first, then each written key with params.k ?? fallback (devices without
\* a fallback, so that it is a key whose value may be undefined).
FactoryLiteral(params, platform, written) ==
    LET use_mmap ==
            IF IsBooleanMmap(params)
            THEN (IF params.use_mmap = "bool:true" THEN "true" ELSE "false")
            ELSE IF Undefined(params, "use_mmap") THEN DefaultUseMmap(platform)
            ELSE params.use_mmap
        flash_attn_type ==
            IF Undefined(params, "flash_attn_type")
            THEN DefaultFlashAttnType(platform)
            ELSE params.flash_attn_type
        Or(k, fallback) ==
            IF k \in written /\ Undefined(params, k) THEN fallback ELSE params[k]
    IN  [st |-> [k \in Keys |->
                    IF k \notin written THEN params.st[k]
                    ELSE IF k = "devices" /\ Undefined(params, "devices") THEN "undefined"
                    ELSE "value"],
         version |-> IF "version" \in written
                     THEN CURRENT_CONTEXT_INIT_PARAMS_VERSION ELSE params.version,
         n_context |-> params.n_context,
         n_ctx |-> Or("n_ctx", 2048),
         n_batch |-> Or("n_batch", 512),
         n_ubatch |-> Or("n_ubatch", 512),
         n_threads |-> Or("n_threads", 4),
         cache_type_k |-> Or("cache_type_k", "f16"),
         cache_type_v |-> Or("cache_type_v", "f16"),
         n_gpu_layers |-> Or("n_gpu_layers", 99),
         use_mlock |-> Or("use_mlock", FALSE),
         use_mmap |-> IF "use_mmap" \in written THEN use_mmap ELSE params.use_mmap,
         no_gpu_devices |-> params.no_gpu_devices,
         flash_attn |-> params.flash_attn,
         flash_attn_type |-> IF "flash_attn_type" \in written
                             THEN flash_attn_type ELSE params.flash_attn_type,
         devices |-> params.devices,
         kv_unified |-> Or("kv_unified", TRUE),
         n_parallel |-> Or("n_parallel", 1)]

\* The factory with the n_threads line of its literal left out.
createContextInitParams_NoThreadsFallback(params, platform) ==
    FactoryLiteral(params, platform, FactoryFields \ {"n_threads"})

createContextInitParams(params, platform) ==
    FactoryLiteral(params, platform, FactoryFields)

RequiredFields ==
    {"version", "n_ctx", "n_batch", "n_ubatch", "n_threads", "cache_type_k",
     "cache_type_v", "n_gpu_layers", "use_mlock", "use_mmap"}

validateContextInitParams(params) ==
    \A field \in RequiredFields : In(field, params)

createDefaultContextInitParams(platform) ==
    [st |-> [k \in Keys |->
                IF k \in {"n_context", "no_gpu_devices", "flash_attn"} THEN "absent"
                ELSE IF k = "devices" THEN "undefined"
                ELSE "value"],
     version |-> CURRENT_CONTEXT_INIT_PARAMS_VERSION,
     n_context |-> 0, n_ctx |-> 2048, n_batch |-> 512, n_ubatch |-> 512,
     n_threads |-> 4, cache_type_k |-> "f16", cache_type_v |-> "f16",
     n_gpu_layers |-> 99, use_mlock |-> FALSE,
     use_mmap |-> DefaultUseMmap(platform),
     no_gpu_devices |-> FALSE, flash_attn |-> FALSE,
     flash_attn_type |-> DefaultFlashAttnType(platform),
     devices |-> <<>>, kv_unified |-> TRUE, n_parallel |-> 1]

----------------------------------------------------------------------------
(* Capability probe, backend resolver and device catalog:                  *)
(* src/src/utils/deviceSelection.ts, src/src/utils/flashAttnCompatibility.ts *)

\* Device names are sequences of characters, so that toLowerCase and
\* startsWith are computed and not looked up.
NameCPU == <<"C", "P", "U">>

NameMetal == <<"M", "e", "t", "a", "l">>

NameAdreno == <<"A", "d", "r", "e", "n", "o">>

NameHTP0 == <<"H", "T", "P", "0">>

NameHTPAll == <<"H", "T", "P", "*">>

PrefixHTP == <<"H", "T", "P">>

LowerChar(c) ==
    CASE c = "A" -> "a" [] c = "C" -> "c" [] c = "E" -> "e" [] c = "H" -> "h"
      [] c = "L" -> "l" [] c = "M" -> "m" [] c = "P" -> "p" [] c = "T" -> "t"
      [] c = "U" -> "u" [] OTHER -> c

toLowerCase(str) == [i \in DOMAIN str |-> LowerChar(str[i])]

startsWith(str, prefix) ==
    /\ Len(str) >= Len(prefix)
    /\ SubSeq(str, 1, Len(prefix)) = prefix

\* An optional device list (devices?: string[]).
NoDevices == [defined |-> FALSE, list |-> <<>>]

SomeDevices(list) == [defined |-> TRUE, list |-> list]

\* o.devices as an optional list: an absent key reads as undefined.
DevicesOf(o) ==
    IF o.st["devices"] = "value" THEN SomeDevices(o.devices) ELSE NoDevices

\* The devices getBackendDevicesInfo can report.
MaxProbeDevices == 2

ProbeDeviceSet ==
    {[deviceName |-> NameCPU, type |-> "cpu"],
     [deviceName |-> NameAdreno, type |-> "gpu"],
     [deviceName |-> NameHTP0, type |-> "npu"],
     [deviceName |-> NameHTP0, type |-> "gpu"]}

ProbeLists ==
    UNION {[1..n -> ProbeDeviceSet] : n \in 0..MaxProbeDevices}

\* getBackendDevicesInfo rejects, resolves to nothing, or resolves to a list.
ProbeOutcomes ==
    {[kind |-> "rejects", devices |-> <<>>], [kind |-> "nothing", devices |-> <<>>]}
    \cup {[kind |-> "list", devices |-> l] : l \in ProbeLists}

getAvailableDevices(pr) ==
    IF pr.kind = "list" THEN pr.devices ELSE <<>>

\* The resolver comparing the first entry without lowering its case.
inferBackendType_CaseSensitive(devices, platform, pr) ==
    IF devices.defined /\ Len(devices.list) > 0 THEN
        LET primaryDevice == devices.list[1]
        IN  IF primaryDevice = toLowerCase(NameMetal) THEN "metal"
            ELSE IF primaryDevice = toLowerCase(NameCPU) THEN "cpu"
            ELSE IF startsWith(primaryDevice, PrefixHTP) THEN "hexagon"
            ELSE IF platform = "android" THEN "opencl"
            ELSE "cpu"
    ELSE IF platform = "ios" THEN "metal"
    ELSE LET availableDevices == getAvailableDevices(pr)
         IN  IF \E i \in DOMAIN availableDevices : availableDevices[i].type = "gpu"
             THEN "opencl"
             ELSE "cpu"

\* The resolver taking any reported device for a GPU.
inferBackendType_AnyDevice(devices, platform, pr) ==
    IF devices.defined /\ Len(devices.list) > 0 THEN
        LET primaryDevice == devices.list[1]
            deviceLower == toLowerCase(primaryDevice)
        IN  IF deviceLower = toLowerCase(NameMetal) THEN "metal"
            ELSE IF deviceLower = toLowerCase(NameCPU) THEN "cpu"
            ELSE IF startsWith(primaryDevice, PrefixHTP) THEN "hexagon"
            ELSE IF platform = "android" THEN "opencl"
            ELSE "cpu"
    ELSE IF platform = "ios" THEN "metal"
    ELSE LET availableDevices == getAvailableDevices(pr)
         IN  IF Len(availableDevices) > 0 THEN "opencl" ELSE "cpu"

inferBackendType(devices, platform, pr) ==
    IF devices.defined /\ Len(devices.list) > 0 THEN
        LET primaryDevice == devices.list[1]
            deviceLower == toLowerCase(primaryDevice)
        IN  IF deviceLower = toLowerCase(NameMetal) THEN "metal"
            ELSE IF deviceLower = toLowerCase(NameCPU) THEN "cpu"
            ELSE IF startsWith(primaryDevice, PrefixHTP) THEN "hexagon"
            ELSE IF platform = "android" THEN "opencl"
            ELSE "cpu"
    ELSE IF platform = "ios" THEN "metal"
    ELSE LET availableDevices == getAvailableDevices(pr)
         IN  IF \E i \in DOMAIN availableDevices : availableDevices[i].type = "gpu"
             THEN "opencl"
             ELSE "cpu"

\* Whether inferBackendType(devices) suspends on the probe before it resolves.
AwaitsProbe(devices, platform) ==
    /\ ~(devices.defined /\ Len(devices.list) > 0)
    /\ platform # "ios"

DeviceOption(id, devices, nGpuLayers, defaultFa, validFa) ==
    [id |-> id, devices |-> devices, n_gpu_layers |-> nGpuLayers,
     default_flash_attn_type |-> defaultFa, valid_flash_attn_types |-> validFa]

AllFlashAttn == <<"auto", "on", "off">>

\* devices.find(d => d.type === 'gpu'): the index of the first, 0 if none.
FirstGpuIndex(devices) ==
    IF \E i \in DOMAIN devices : devices[i].type = "gpu"
    THEN CHOOSE i \in DOMAIN devices :
            /\ devices[i].type = "gpu"
            /\ \A j \in 1..(i - 1) : devices[j].type # "gpu"
    ELSE 0

\* The iOS catalog listing the CPU option first.
IosOptions_CpuFirst ==
    <<DeviceOption("cpu", SomeDevices(<<NameCPU>>), 0, "auto", AllFlashAttn),
      DeviceOption("auto", NoDevices, 99, "auto", AllFlashAttn),
      DeviceOption("gpu", SomeDevices(<<NameMetal>>), 99, "auto", AllFlashAttn)>>

\* Lines 48-92: the three iOS options.
IosOptions ==
    <<DeviceOption("auto", NoDevices, 99, "auto", AllFlashAttn),
      DeviceOption("gpu", SomeDevices(<<NameMetal>>), 99, "auto", AllFlashAttn),
      DeviceOption("cpu", SomeDevices(<<NameCPU>>), 0, "auto", AllFlashAttn)>>

\* Lines 102-112: the Android CPU option.
AndroidCpuOption ==
    <<DeviceOption("cpu", SomeDevices(<<NameCPU>>), 0, "off", AllFlashAttn)>>

\* The GPU option recommending a mode that is not among its valid ones.
AndroidGpuOption_DefaultAuto(devices) ==
    LET gpuIdx == FirstGpuIndex(devices)
    IN  IF gpuIdx # 0
        THEN <<DeviceOption("gpu", SomeDevices(<<devices[gpuIdx].deviceName>>),
                            99, "auto", <<"off">>)>>
        ELSE <<>>

\* Lines 98, 115-129: the GPU option, when a device of type gpu is reported.
AndroidGpuOption(devices) ==
    LET gpuIdx == FirstGpuIndex(devices)
    IN  IF gpuIdx # 0
        THEN <<DeviceOption("gpu", SomeDevices(<<devices[gpuIdx].deviceName>>),
                            99, "off", <<"off">>)>>
        ELSE <<>>

\* The Hexagon option offered for devices of type npu instead of by name.
AndroidHexagonOption_ByType(devices) ==
    LET hexagonDevs == SelectSeq(devices, LAMBDA d : d.type = "npu")
        hasHexagon == Len(hexagonDevs) > 0
    IN  IF hasHexagon
        THEN <<DeviceOption("hexagon", SomeDevices(<<NameHTPAll>>),
                            99, "off", <<"off">>)>>
        ELSE <<>>

\* Lines 96-97, 132-148: the Hexagon option, when a device named HTP... is
\* reported.
AndroidHexagonOption(devices) ==
    LET hexagonDevs == SelectSeq(devices, LAMBDA d : startsWith(d.deviceName, PrefixHTP))
        hasHexagon == Len(hexagonDevs) > 0
    IN  IF hasHexagon
        THEN <<DeviceOption("hexagon", SomeDevices(<<NameHTPAll>>),
                            99, "off", <<"off">>)>>
        ELSE <<>>

getDeviceOptions(platform, pr) ==
    IF platform = "ios" THEN IosOptions
    ELSE
        LET devices == getAvailableDevices(pr)
        IN  AndroidCpuOption \o AndroidGpuOption(devices) \o AndroidHexagonOption(devices)

\* Lines 250-269: the platform's default device configuration.
getDefaultDeviceConfig(platform) ==
    IF platform = "ios"
    THEN [devices |-> NoDevices, n_gpu_layers |-> 99,
          default_flash_attn_type |-> "auto"]
    ELSE [devices |-> SomeDevices(<<NameCPU>>), n_gpu_layers |-> 0,
          default_flash_attn_type |-> "off"]

\* Array.prototype.includes
Includes(seq, v) == \E i \in DOMAIN seq : seq[i] = v

----------------------------------------------------------------------------
(* GPU capability check: src/src/utils/deviceCapabilities.ts *)

\* A number that may be NaN.
NaN == [nan |-> TRUE, value |-> 0]

Number(n) == [nan |-> FALSE, value |-> n]

Digits == {"0", "1", "2", "3", "4", "5", "6", "7", "8", "9"}

DigitValue(c) ==
    CASE c = "0" -> 0 [] c = "1" -> 1 [] c = "2" -> 2 [] c = "3" -> 3
      [] c = "4" -> 4 [] c = "5" -> 5 [] c = "6" -> 6 [] c = "7" -> 7
      [] c = "8" -> 8 [] c = "9" -> 9

RECURSIVE ParseDigits(_, _, _)
\* The value of the longest run of digits of str that starts at index i.
ParseDigits(str, i, acc) ==
    IF i > Len(str) \/ str[i] \notin Digits THEN acc
    ELSE ParseDigits(str, i + 1, acc * 10 + DigitValue(str[i]))

\* parseInt(str, 10) on a string without sign or leading blanks: the
\* leading digits, NaN when there are none.
parseInt(str) ==
    IF Len(str) = 0 \/ str[1] \notin Digits THEN NaN
    ELSE Number(ParseDigits(str, 1, 0))

\* GpuCapabilities.details: keys is the set of keys the object has.
Details(keys, hasAdreno, hasI8mm, hasDotProd, iosVersion) ==
    [keys |-> keys, hasAdreno |-> hasAdreno, hasI8mm |-> hasI8mm,
     hasDotProd |-> hasDotProd, iosVersion |-> iosVersion]

NoDetails == Details({}, FALSE, FALSE, FALSE, NaN)

\* A GpuCapabilities value; reason is {} when it is undefined.
GpuCapabilities(isSupported, reason, details) ==
    [isSupported |-> isSupported, reason |-> reason, details |-> details]

\* flag ?? false, for a native flag that is "absent", "true" or "false".
OrFalse(flag) == flag = "true"

\* The check that leaves reason unset when only CPU features are missing.
checkGpuSupport_NoCpuReason(platform, native) ==
    IF platform = "ios" THEN
        LET iosVersion == parseInt(native.version)
            isSupported == ~iosVersion.nan /\ iosVersion.value >= 18
        IN  GpuCapabilities(isSupported,
                            IF isSupported THEN {} ELSE {"ios_version"},
                            Details({"iosVersion"}, FALSE, FALSE, FALSE, iosVersion))
    ELSE IF ~native.hasGetGPUInfo \/ ~native.hasGetCPUInfo THEN
        GpuCapabilities(FALSE, {"unknown"}, NoDetails)
    ELSE IF native.gpuInfo.kind # "info" \/ native.cpuInfo.kind # "info" THEN
        GpuCapabilities(FALSE, {"unknown"}, NoDetails)
    ELSE
        LET hasAdreno == OrFalse(native.gpuInfo.hasAdreno)
            hasI8mm == OrFalse(native.cpuInfo.hasI8mm)
            hasDotProd == OrFalse(native.cpuInfo.hasDotProd)
            isSupported == hasAdreno /\ hasI8mm /\ hasDotProd
            reason == IF isSupported THEN {}
                      ELSE IF ~hasAdreno THEN {"no_adreno"}
                      ELSE {}
        IN  GpuCapabilities(isSupported, reason,
                            Details({"hasAdreno", "hasI8mm", "hasDotProd"},
                                    hasAdreno, hasI8mm, hasDotProd, NaN))

\* Lines 51-120.  A native query that rejects, and one that resolves to
\* null (reading a property of it throws), both end in the catch block.
checkGpuSupport(platform, native) ==
    IF platform = "ios" THEN
        LET iosVersion == parseInt(native.version)
            isSupported == ~iosVersion.nan /\ iosVersion.value >= 18
        IN  GpuCapabilities(isSupported,
                            IF isSupported THEN {} ELSE {"ios_version"},
                            Details({"iosVersion"}, FALSE, FALSE, FALSE, iosVersion))
    ELSE IF ~native.hasGetGPUInfo \/ ~native.hasGetCPUInfo THEN
        GpuCapabilities(FALSE, {"unknown"}, NoDetails)
    ELSE IF native.gpuInfo.kind # "info" \/ native.cpuInfo.kind # "info" THEN
        GpuCapabilities(FALSE, {"unknown"}, NoDetails)
    ELSE
        LET hasAdreno == OrFalse(native.gpuInfo.hasAdreno)
            hasI8mm == OrFalse(native.cpuInfo.hasI8mm)
            hasDotProd == OrFalse(native.cpuInfo.hasDotProd)
            isSupported == hasAdreno /\ hasI8mm /\ hasDotProd
            reason == IF isSupported THEN {}
                      ELSE IF ~hasAdreno THEN {"no_adreno"}
                      ELSE IF ~hasI8mm \/ ~hasDotProd THEN {"missing_cpu_features"}
                      ELSE {"unknown"}
        IN  GpuCapabilities(isSupported, reason,
                            Details({"hasAdreno", "hasI8mm", "hasDotProd"},
                                    hasAdreno, hasI8mm, hasDotProd, NaN))

----------------------------------------------------------------------------
(* Settings screen: src/unnamed/part_000 *)

\* modelStore's setters replace one field of contextInitParams.
setDevices(params, devices) ==
    [params EXCEPT !.devices = devices.list,
                   !.st["devices"] = IF devices.defined THEN "value" ELSE "undefined"]

setFlashAttnType(params, type) ==
    [params EXCEPT !.flash_attn_type = type, !.st["flash_attn_type"] = "value"]

setCacheTypeV(params, cacheType) ==
    [params EXCEPT !.cache_type_v = cacheType, !.st["cache_type_v"] = "value"]

\* contextInitParams.flash_attn_type ?? (platform default)
currentFlashAttnType(params, platform) ==
    IF Undefined(params, "flash_attn_type")
    THEN DefaultFlashAttnType(platform)
    ELSE params.flash_attn_type

getCurrentDeviceId(params, platform) ==
    LET devices == DevicesOf(params)
        nGpuLayers == IF Undefined(params, "n_gpu_layers") THEN 0 ELSE params.n_gpu_layers
        none == ~devices.defined \/ Len(devices.list) = 0
    IN  IF platform = "ios" THEN
            IF none THEN (IF nGpuLayers = 0 THEN "cpu" ELSE "auto")
            ELSE IF devices.list[1] = NameMetal THEN "gpu"
            ELSE IF devices.list[1] = NameCPU THEN "cpu"
            ELSE "auto"
        ELSE IF none \/ devices.list[1] = NameCPU THEN "cpu"
        ELSE IF startsWith(devices.list[1], PrefixHTP) THEN "hexagon"
        ELSE "gpu"

handleDeviceSelect_AlwaysDefault(params, option, platform) ==
    setFlashAttnType(setDevices(params, option.devices), option.default_flash_attn_type)

handleDeviceSelect(params, option, platform) ==
    LET stored == setDevices(params, option.devices)
        currentFlashAttn == currentFlashAttnType(stored, platform)
    IN  IF ~Includes(option.valid_flash_attn_types, currentFlashAttn)
        THEN setFlashAttnType(stored, option.default_flash_attn_type)
        ELSE stored

\* deviceOptions.find(opt => opt.id === id): the index of the first, 0 if none.
FirstOptionIndex(options, id) ==
    IF \E i \in DOMAIN options : options[i].id = id
    THEN CHOOSE i \in DOMAIN options :
            /\ options[i].id = id
            /\ \A j \in 1..(i - 1) : options[j].id # id
    ELSE 0

\* The flash-attention modes whose button is enabled.
validTypes(params, options, platform) ==
    LET currentDeviceId == getCurrentDeviceId(params, platform)
        idx == FirstOptionIndex(options, currentDeviceId)
    IN  IF idx # 0 THEN options[idx].valid_flash_attn_types ELSE AllFlashAttn

\* The value-cache menu button is enabled.
valueCacheButtonEnabled(params) ==
    ~Falsy(params, "flash_attn_type") /\ params.flash_attn_type # "off"

\* Bound on the inferBackendType calls in flight at once.
MaxInflight == 2

BackendCall(devices, platform, pr) ==
    [backend |-> inferBackendType(devices, platform, pr),
     awaitsProbe |-> AwaitsProbe(devices, platform)]

\* The updateBackend effect: it runs again when devicesKey has changed.
updateBackend(calls, before, after, platform, pr) ==
    IF DevicesOf(before) # DevicesOf(after)
    THEN Append(calls, BackendCall(DevicesOf(after), platform, pr))
    ELSE calls

NoOption == DeviceOption("", NoDevices, 0, "", <<>>)

Last(op, option, faSt, fa) == [op |-> op, option |-> option, faSt |-> faSt, fa |-> fa]

\* A promise that does not wait for the probe resolves before the next event.
MicrotasksDrained ==
    /\ os = "ios" => optionsLoaded
    /\ \A i \in DOMAIN inflight : inflight[i].awaitsProbe

ScreenInit ==
    /\ contextInitParams = createDefaultContextInitParams(os)
    /\ deviceOptions = <<>>
    /\ optionsLoaded = FALSE
    /\ currentBackend = (IF os = "ios" THEN "metal" ELSE "cpu")
    /\ inflight = <<BackendCall(DevicesOf(contextInitParams), os, probe)>>
    /\ last = Last("mount", NoOption, "absent", "")

LoadDeviceOptions ==
    /\ ~optionsLoaded
    /\ deviceOptions' = getDeviceOptions(os, probe)
    /\ optionsLoaded' = TRUE
    /\ last' = Last("loadDeviceOptions", NoOption, "absent", "")
    /\ UNCHANGED <<os, probe, dev, chat, migVars, rule, contextInitParams, currentBackend, inflight>>

ResolveBackend ==
    /\ \E i \in DOMAIN inflight :
        /\ inflight[i].awaitsProbe => \A j \in DOMAIN inflight : inflight[j].awaitsProbe
        /\ currentBackend' = inflight[i].backend
        /\ inflight' = SubSeq(inflight, 1, i - 1) \o SubSeq(inflight, i + 1, Len(inflight))
    /\ last' = Last("setCurrentBackend", NoOption, "absent", "")
    /\ UNCHANGED <<os, probe, dev, chat, migVars, rule, contextInitParams, deviceOptions, optionsLoaded>>

HandleDeviceSelect ==
    /\ MicrotasksDrained
    /\ Len(deviceOptions) > 1
    /\ \E i \in DOMAIN deviceOptions :
        LET option == deviceOptions[i]
            after == handleDeviceSelect(contextInitParams, option, os)
            calls == updateBackend(inflight, contextInitParams, after, os, probe)
        IN  /\ Len(calls) <= MaxInflight
            /\ contextInitParams' = after
            /\ inflight' = calls
            /\ last' = Last("handleDeviceSelect", option,
                            contextInitParams.st["flash_attn_type"],
                            contextInitParams.flash_attn_type)
    /\ UNCHANGED <<os, probe, dev, chat, migVars, rule, deviceOptions, optionsLoaded, currentBackend>>

SelectFlashAttn ==
    /\ MicrotasksDrained
    /\ \E value \in FlashAttnTypes :
        /\ Includes(validTypes(contextInitParams, deviceOptions, os), value)
        /\ contextInitParams' = setFlashAttnType(contextInitParams, value)
    /\ last' = Last("setFlashAttnType", NoOption, "absent", "")
    /\ UNCHANGED <<os, probe, dev, chat, migVars, rule, deviceOptions, optionsLoaded,
                   currentBackend, inflight>>

SelectCacheTypeV ==
    /\ MicrotasksDrained
    /\ valueCacheButtonEnabled(contextInitParams)
    /\ LET cacheTypeVOptions ==
               getAllowedCacheTypeVOptions(currentFlashAttnType(contextInitParams, os),
                                           currentBackend)
       IN  \E i \in DOMAIN cacheTypeVOptions :
            /\ ~cacheTypeVOptions[i].disabled
            /\ contextInitParams' = setCacheTypeV(contextInitParams, cacheTypeVOptions[i].value)
    /\ last' = Last("setCacheTypeV", NoOption, "absent", "")
    /\ UNCHANGED <<os, probe, dev, chat, migVars, rule, deviceOptions, optionsLoaded,
                   currentBackend, inflight>>

ScreenIdle ==
    /\ contextInitParams = EmptyObject
    /\ deviceOptions = <<>>
    /\ optionsLoaded = FALSE
    /\ currentBackend = "cpu"
    /\ inflight = <<>>
    /\ last = Last("none", NoOption, "absent", "")

----------------------------------------------------------------------------
(* Calls of the rule engine on every (cache type, mode, backend) *)

NoVerdict == Verdict(FALSE, {})

RuleInputs(cacheType, flashAttnType, backend) ==
    [cacheType |-> cacheType, flashAttnType |-> flashAttnType, backend |-> backend,
     called |-> {}, v |-> NoVerdict, k |-> NoVerdict,
     vOptions |-> <<>>, kOptions |-> <<>>]

RulesIdle == rule = RuleInputs("f16", "off", "cpu")

CallIsCacheTypeVSafe ==
    /\ "isCacheTypeVSafe" \notin rule.called
    /\ rule' = [rule EXCEPT
                    !.v = isCacheTypeVSafe(rule.cacheType, rule.flashAttnType, rule.backend),
                    !.called = @ \cup {"isCacheTypeVSafe"}]
    /\ UNCHANGED <<os, probe, dev, chat, migVars, screenVars>>

CallIsCacheTypeKSafe ==
    /\ "isCacheTypeKSafe" \notin rule.called
    /\ rule' = [rule EXCEPT
                    !.k = isCacheTypeKSafe(rule.cacheType, rule.flashAttnType, rule.backend),
                    !.called = @ \cup {"isCacheTypeKSafe"}]
    /\ UNCHANGED <<os, probe, dev, chat, migVars, screenVars>>

CallGetAllowedCacheTypeVOptions ==
    /\ "getAllowedCacheTypeVOptions" \notin rule.called
    /\ rule' = [rule EXCEPT
                    !.vOptions = getAllowedCacheTypeVOptions(rule.flashAttnType, rule.backend),
                    !.called = @ \cup {"getAllowedCacheTypeVOptions"}]
    /\ UNCHANGED <<os, probe, dev, chat, migVars, screenVars>>

CallGetAllowedCacheTypeKOptions ==
    /\ "getAllowedCacheTypeKOptions" \notin rule.called
    /\ rule' = [rule EXCEPT
                    !.kOptions = getAllowedCacheTypeKOptions(rule.flashAttnType, rule.backend),
                    !.called = @ \cup {"getAllowedCacheTypeKOptions"}]
    /\ UNCHANGED <<os, probe, dev, chat, migVars, screenVars>>

----------------------------------------------------------------------------
(* Calls of the device utilities: the resolver, the catalog, the probe     *)
(* wrapper and the GPU capability check, each on its own                   *)

\* The longest devices list handed to inferBackendType.
MaxDevices == 2

\* Entries a devices list can hold: the names the catalog writes, their
\* other letter cases, and a lower-case name that looks like a Hexagon one.
DeviceNames ==
    {NameMetal, toLowerCase(NameMetal), <<"M", "E", "T", "A", "L">>,
     NameCPU, toLowerCase(NameCPU), NameHTP0, NameHTPAll, NameAdreno,
     toLowerCase(NameHTP0)}

\* devices: undefined, [] or a list of up to MaxDevices entries.
DevicesInputs ==
    {NoDevices} \cup
    {SomeDevices(l) : l \in UNION {[1..n -> DeviceNames] : n \in 0..MaxDevices}}

\* Platform.Version on iOS.
VersionStrings ==
    {<<"1", "7", ".", "4">>, <<"1", "8">>, <<"1", "8", ".", "0">>,
     <<"2", "6", ".", "1">>, <<"9", ".", "3">>, <<>>}

\* A native flag: the key is missing, or it is true or false.
NativeFlags == {"absent", "true", "false"}

\* DeviceInfoModule.getGPUInfo(): rejects, resolves to null, or to an info.
GpuInfoOutcomes ==
    {[kind |-> "rejects", hasAdreno |-> "absent"],
     [kind |-> "null", hasAdreno |-> "absent"]}
    \cup {[kind |-> "info", hasAdreno |-> a] : a \in NativeFlags}

\* DeviceInfoModule.getCPUInfo(): rejects, resolves to null, or to an info.
CpuInfoOutcomes ==
    {[kind |-> "rejects", hasI8mm |-> "absent", hasDotProd |-> "absent"],
     [kind |-> "null", hasI8mm |-> "absent", hasDotProd |-> "absent"]}
    \cup {[kind |-> "info", hasI8mm |-> i, hasDotProd |-> d] :
                i \in NativeFlags, d \in NativeFlags}

\* What the native side offers to checkGpuSupport.
Natives ==
    [version : VersionStrings, hasGetGPUInfo : BOOLEAN, hasGetCPUInfo : BOOLEAN,
     gpuInfo : GpuInfoOutcomes, cpuInfo : CpuInfoOutcomes]

QuietNative ==
    [version |-> <<"1", "8">>, hasGetGPUInfo |-> FALSE, hasGetCPUInfo |-> FALSE,
     gpuInfo |-> [kind |-> "rejects", hasAdreno |-> "absent"],
     cpuInfo |-> [kind |-> "rejects", hasI8mm |-> "absent", hasDotProd |-> "absent"]]

\* The inputs of a call and, once op names the utility that ran, its result.
DevInputs(devices, native) ==
    [devices |-> devices, native |-> native, op |-> "none", backend |-> "",
     options |-> <<>>, available |-> <<>>,
     gpu |-> GpuCapabilities(FALSE, {}, NoDetails)]

DevIdle == dev = DevInputs(NoDevices, QuietNative)

CallInferBackendType ==
    /\ dev.op = "none"
    /\ dev' = [dev EXCEPT !.op = "inferBackendType",
                          !.backend = inferBackendType(dev.devices, os, probe)]
    /\ UNCHANGED <<os, probe, chat, migVars, rule, screenVars>>

CallGetDeviceOptions ==
    /\ dev.op = "none"
    /\ dev' = [dev EXCEPT !.op = "getDeviceOptions",
                          !.options = getDeviceOptions(os, probe)]
    /\ UNCHANGED <<os, probe, chat, migVars, rule, screenVars>>

CallGetAvailableDevices ==
    /\ dev.op = "none"
    /\ dev' = [dev EXCEPT !.op = "getAvailableDevices",
                          !.available = getAvailableDevices(probe)]
    /\ UNCHANGED <<os, probe, chat, migVars, rule, screenVars>>

CallCheckGpuSupport ==
    /\ dev.op = "none"
    /\ dev' = [dev EXCEPT !.op = "checkGpuSupport",
                          !.gpu = checkGpuSupport(os, dev.native)]
    /\ UNCHANGED <<os, probe, chat, migVars, rule, screenVars>>

----------------------------------------------------------------------------
(* Chat session hook: src/src/hooks/useChatSession.ts *)

\* Bound on the messages sent one after the other.
MaxSends == 2

\* Bound on the tokens one completion streams.
MaxTokens == 2

\* modelStore.inferencing, modelStore.isStreaming, chatSessionStore.isGenerating
Flags(inferencing, isStreaming, isGenerating) ==
    [inferencing |-> inferencing, isStreaming |-> isStreaming,
     isGenerating |-> isGenerating]

\* The stores' setters replace one flag.
setInferencing(c, value) == [c EXCEPT !.flags.inferencing = value]

setIsStreaming(c, value) == [c EXCEPT !.flags.isStreaming = value]

setIsGenerating(c, value) == [c EXCEPT !.flags.isGenerating = value]

\* The keep-awake utility: keepAwake is the last call made to it, whether
\* the call returned or threw (each call site swallows the exception).
activateKeepAwake(c) == [c EXCEPT !.keepAwake = "activated"]

deactivateKeepAwake(c) == [c EXCEPT !.keepAwake = "deactivated"]

\* The three resets of lines 326-328 and 331-333.
ResetFlags(c) == setIsGenerating(setIsStreaming(setInferencing(c, FALSE), FALSE), FALSE)

\* handleSendPress has returned: its promise is fulfilled or rejected.
Settle(c, outcome) == [c EXCEPT !.pc = "settled", !.outcome = outcome]

\* The hook before any message is sent; context is modelStore.context.
ChatStart(context) ==
    [context |-> context, pc |-> "idle", flags |-> Flags(FALSE, FALSE, FALSE),
     keepAwake |-> "untouched", sends |-> 0, completions |-> 0, tokens |-> 0,
     before |-> Flags(FALSE, FALSE, FALSE), completionsBefore |-> 0,
     outcome |-> "none", failed |-> "none"]

ChatIdle == chat = ChatStart(FALSE)

\* Lines 185-190 and 192-198: the call up to its first await.
HandleSendPress ==
    /\ chat.pc \in {"idle", "settled"}
    /\ chat.sends < MaxSends
    /\ chat' = [chat EXCEPT
                    !.pc = IF chat.context THEN "isMultimodalEnabled"
                           ELSE "modelNotLoaded",
                    !.sends = @ + 1, !.tokens = 0, !.before = chat.flags,
                    !.completionsBefore = chat.completions,
                    !.outcome = "none", !.failed = "none"]
    /\ UNCHANGED <<os, probe, dev, migVars, rule, screenVars>>

\* Lines 188-189: await addSystemMessage(modelNotLoaded), then return.
ModelNotLoadedSettles ==
    /\ chat.pc = "modelNotLoaded"
    /\ \E ok \in BOOLEAN :
        chat' = IF ok THEN Settle(chat, "fulfilled")
                ELSE Settle([chat EXCEPT !.failed = "modelNotLoaded"], "rejected")
    /\ UNCHANGED <<os, probe, dev, migVars, rule, screenVars>>

\* Line 197: await modelStore.isMultimodalEnabled().
IsMultimodalEnabledSettles ==
    /\ chat.pc = "isMultimodalEnabled"
    /\ \E ok \in BOOLEAN :
        chat' = IF ok THEN [chat EXCEPT !.pc = "addMessage"]
                ELSE Settle([chat EXCEPT !.failed = "isMultimodalEnabled"], "rejected")
    /\ UNCHANGED <<os, probe, dev, migVars, rule, screenVars>>

\* Lines 218-230: await addMessage(textMessage); then the three flags are
\* set and activateKeepAwake is called, and prepareCompletion is called and
\* awaited (lines 246-256).
AddMessageSettles ==
    /\ chat.pc = "addMessage"
    /\ \E ok \in BOOLEAN :
        chat' =
            IF ok
            THEN LET set == setIsGenerating(
                                setIsStreaming(setInferencing(chat, TRUE), FALSE), TRUE)
                 IN  [activateKeepAwake(set) EXCEPT !.pc = "prepareCompletion"]
            ELSE Settle([chat EXCEPT !.failed = "addMessage"], "rejected")
    /\ UNCHANGED <<os, probe, dev, migVars, rule, screenVars>>

\* Lines 246-258: await prepareCompletion(...), outside the try block; when
\* it resolves, context.completion is called inside the try (line 265).
PrepareCompletionSettles ==
    /\ chat.pc = "prepareCompletion"
    /\ \E ok \in BOOLEAN :
        chat' = IF ok THEN [chat EXCEPT !.pc = "completion", !.completions = @ + 1]
                ELSE Settle([chat EXCEPT !.failed = "prepareCompletion"], "rejected")
    /\ UNCHANGED <<os, probe, dev, migVars, rule, screenVars>>

\* Lines 265-303: the streaming callback of context.completion.
CompletionToken ==
    /\ chat.pc = "completion"
    /\ chat.tokens < MaxTokens
    /\ chat' = [(IF ~chat.flags.isStreaming THEN setIsStreaming(chat, TRUE) ELSE chat)
                    EXCEPT !.tokens = @ + 1]
    /\ UNCHANGED <<os, probe, dev, migVars, rule, screenVars>>

\* Lines 265, 329-333: await context.completion(...); a rejection enters
\* the catch block, which resets the flags and deletes the empty message.
CompletionSettles ==
    /\ chat.pc = "completion"
    /\ \E ok \in BOOLEAN :
        chat' = IF ok THEN [chat EXCEPT !.pc = "updateMessage"]
                ELSE [ResetFlags(chat) EXCEPT !.pc = "deleteMessage",
                                              !.failed = "completion"]
    /\ UNCHANGED <<os, probe, dev, migVars, rule, screenVars>>

\* Lines 309-328, 367-374: await chatSessionStore.updateMessage(...); then
\* the flags are reset and the finally block deactivates keep-awake.
UpdateMessageSettles ==
    /\ chat.pc = "updateMessage"
    /\ \E ok \in BOOLEAN :
        chat' = IF ok THEN Settle(deactivateKeepAwake(ResetFlags(chat)), "fulfilled")
                ELSE [ResetFlags(chat) EXCEPT !.pc = "deleteMessage",
                                              !.failed = "updateMessage"]
    /\ UNCHANGED <<os, probe, dev, migVars, rule, screenVars>>

\* Lines 336-357: await chatSessionRepository.deleteMessage(...) in its own
\* try block; then addSystemMessage is called and awaited (lines 359-365).
DeleteMessageSettles ==
    /\ chat.pc = "deleteMessage"
    /\ \E ok \in BOOLEAN :
        chat' = [chat EXCEPT !.pc = "addSystemMessage"]
    /\ UNCHANGED <<os, probe, dev, migVars, rule, screenVars>>

\* Lines 359-374: await addSystemMessage(completionFailed) in the catch
\* block; the finally block deactivates keep-awake either way.
AddSystemMessageSettles ==
    /\ chat.pc = "addSystemMessage"
    /\ \E ok \in BOOLEAN :
        chat' = Settle(deactivateKeepAwake(chat),
                       IF ok THEN "fulfilled" ELSE "rejected")
    /\ UNCHANGED <<os, probe, dev, migVars, rule, screenVars>>

----------------------------------------------------------------------------
(* Calls of the migrator on legacy and current blobs *)

MigIdle ==
    /\ x = EmptyObject
    /\ m1 = EmptyObject
    /\ m2 = EmptyObject
    /\ chain = <<>>
    /\ made = EmptyObject
    /\ checked = FALSE
    /\ pc = "idle"

\* A field of an input blob: absent, or present with a value.
Absent(filler) == <<"absent", filler>>

Present(value) == <<"value", value>>

\* The object with the given field choices; f maps each key to <<status, value>>.
MakeObject(f) ==
    [st |-> [k \in Keys |-> f[k][1]],
     version |-> f["version"][2], n_context |-> f["n_context"][2],
     n_ctx |-> f["n_ctx"][2], n_batch |-> f["n_batch"][2],
     n_ubatch |-> f["n_ubatch"][2], n_threads |-> f["n_threads"][2],
     cache_type_k |-> f["cache_type_k"][2], cache_type_v |-> f["cache_type_v"][2],
     n_gpu_layers |-> f["n_gpu_layers"][2], use_mlock |-> f["use_mlock"][2],
     use_mmap |-> f["use_mmap"][2], no_gpu_devices |-> f["no_gpu_devices"][2],
     flash_attn |-> f["flash_attn"][2], flash_attn_type |-> f["flash_attn_type"][2],
     devices |-> f["devices"][2], kv_unified |-> f["kv_unified"][2],
     n_parallel |-> f["n_parallel"][2]]

\* Version tags: none, falsy, the three known ones and one from a later schema.
VersionChoices ==
    {Absent(""), Present(""), Present("0.0"), Present("1.0"), Present("2.0"),
     Present("3.0")}

NContextChoices == {Absent(0), Present(4096), Present(1024)}

NCtxChoices == {Absent(0), Present(1024), Present(512)}

UseMmapChoices ==
    {Absent(""), Present("bool:true"), Present("bool:false"), Present("smart")}

UseMlockChoices == {Absent(FALSE), Present(TRUE)}

BoolChoices == {Absent(FALSE), Present(TRUE), Present(FALSE)}

FlashAttnTypeChoices == {Absent(""), Present("on"), Present("off")}

NGpuLayersChoices == {Absent(0), Present(0), Present(50)}

\* kv_unified and n_parallel: both absent, or both set by the user.
NewParamChoices == {<<Absent(FALSE), Absent(0)>>, <<Present(FALSE), Present(4)>>}

CacheTypeVChoices == {Absent(""), Present("f16"), Present("q8_0")}

DevicesChoices == {Absent(<<>>), Present(<<NameCPU>>), Present(<<NameAdreno>>)}

\* n_batch, n_ubatch, n_threads and cache_type_k: all there, or a truncated blob.
CoreChoices ==
    {[n_batch |-> Present(512), n_ubatch |-> Present(512), n_threads |-> Present(4),
      cache_type_k |-> Present("f16")],
     [n_batch |-> Absent(0), n_ubatch |-> Absent(0), n_threads |-> Absent(0),
      cache_type_k |-> Absent("")]}

FullCore == CHOOSE c \in CoreChoices : c.n_batch[1] = "value"

\* Blobs of every historical shape: every combination of the fields the
\* migration steps read or write, the fields they pass through being set.
LegacyShapeInit ==
    \E v \in VersionChoices, nc \in NContextChoices, n \in NCtxChoices,
       mm \in UseMmapChoices, ml \in UseMlockChoices, ng \in BoolChoices,
       fa \in BoolChoices, ft \in FlashAttnTypeChoices, gl \in NGpuLayersChoices,
       np \in NewParamChoices :
        x = MakeObject(
              [version |-> v, n_context |-> nc, n_ctx |-> n, use_mmap |-> mm,
               use_mlock |-> ml, no_gpu_devices |-> ng, flash_attn |-> fa,
               flash_attn_type |-> ft, n_gpu_layers |-> gl, kv_unified |-> np[1],
               n_parallel |-> np[2], cache_type_v |-> Present("f16"),
               devices |-> Absent(<<>>), n_batch |-> FullCore.n_batch,
               n_ubatch |-> FullCore.n_ubatch, n_threads |-> FullCore.n_threads,
               cache_type_k |-> FullCore.cache_type_k])

\* Blobs that vary the fields no migration step writes: the cache type, the
\* devices, and a truncated blob that lacks the required core fields.
PassThroughInit ==
    \E v \in VersionChoices, fa \in BoolChoices, ft \in FlashAttnTypeChoices,
       cv \in CacheTypeVChoices, d \in DevicesChoices, core \in CoreChoices,
       n \in {Absent(0), Present(2048)} :
        x = MakeObject(
              [version |-> v, n_context |-> Absent(0), n_ctx |-> n,
               use_mmap |-> Absent(""), use_mlock |-> Absent(FALSE),
               no_gpu_devices |-> Absent(FALSE), flash_attn |-> fa,
               flash_attn_type |-> ft, n_gpu_layers |-> Absent(0),
               kv_unified |-> Absent(FALSE), n_parallel |-> Absent(0),
               cache_type_v |-> cv, devices |-> d, n_batch |-> core.n_batch,
               n_ubatch |-> core.n_ubatch, n_threads |-> core.n_threads,
               cache_type_k |-> core.cache_type_k])

\* m1 = migrateContextInitParams(x); x is the argument object after the call.
Migrate ==
    /\ pc = "start"
    /\ m1' = migrateContextInitParams(x, os)
    /\ x' = ArgumentAfter(MigrationTarget, x, migrateContextInitParams(x, os))
    /\ chain' = MigrationVersions(x, os)
    /\ pc' = "once"
    /\ UNCHANGED <<os, probe, dev, chat, m2, made, checked, rule, screenVars>>

\* m2 = migrateContextInitParams(m1); m1 is the argument object after the call.
MigrateAgain ==
    /\ pc = "once"
    /\ m2' = migrateContextInitParams(m1, os)
    /\ m1' = ArgumentAfter(MigrationTarget, m1, migrateContextInitParams(m1, os))
    /\ pc' = "twice"
    /\ UNCHANGED <<os, probe, dev, chat, x, chain, made, checked, rule, screenVars>>

\* createContextInitParams applied to the blob as a partial parameter object.
Create ==
    /\ pc = "start"
    /\ made' = createContextInitParams(x, os)
    /\ x' = ArgumentAfter(FactoryTarget, x, createContextInitParams(x, os))
    /\ pc' = "created"
    /\ UNCHANGED <<os, probe, dev, chat, m1, m2, chain, checked, rule, screenVars>>

\* validateContextInitParams applied to the blob.
Validate ==
    /\ pc = "start"
    /\ checked' = validateContextInitParams(x)
    /\ pc' = "validated"
    /\ UNCHANGED <<os, probe, dev, chat, x, m1, m2, chain, made, rule, screenVars>>

----------------------------------------------------------------------------
(* Specifications *)

\* The settings screen on either platform, for every probe outcome.
Init ==
    /\ os \in Platforms
    /\ probe \in ProbeOutcomes
    /\ MigIdle
    /\ RulesIdle
    /\ DevIdle
    /\ ChatIdle
    /\ ScreenInit

Next ==
    \/ LoadDeviceOptions
    \/ ResolveBackend
    \/ HandleDeviceSelect
    \/ SelectFlashAttn
    \/ SelectCacheTypeV

Spec == Init /\ [][Next]_vars

\* The migrator applied once and twice, and the factory applied once, to
\* every input blob.
MigratorInit ==
    /\ os \in Platforms
    /\ probe = [kind |-> "nothing", devices |-> <<>>]
    /\ LegacyShapeInit \/ PassThroughInit
    /\ m1 = EmptyObject
    /\ m2 = EmptyObject
    /\ chain = <<>>
    /\ made = EmptyObject
    /\ checked = FALSE
    /\ pc = "start"
    /\ RulesIdle
    /\ DevIdle
    /\ ChatIdle
    /\ ScreenIdle

MigratorNext == Migrate \/ MigrateAgain \/ Create \/ Validate

MigratorSpec == MigratorInit /\ [][MigratorNext]_vars

\* The rule engine applied to every (cache type, mode, backend).
RulesInit ==
    /\ os = "android"
    /\ probe = [kind |-> "nothing", devices |-> <<>>]
    /\ MigIdle
    /\ \E c \in CacheTypes, f \in FlashAttnTypes, b \in BackendTypes :
        rule = RuleInputs(c, f, b)
    /\ DevIdle
    /\ ChatIdle
    /\ ScreenIdle

RulesNext ==
    \/ CallIsCacheTypeVSafe
    \/ CallIsCacheTypeKSafe
    \/ CallGetAllowedCacheTypeVOptions
    \/ CallGetAllowedCacheTypeKOptions

RulesSpec == RulesInit /\ [][RulesNext]_vars

\* Each device utility called once, on either platform: the resolver and
\* the catalog for every devices list and probe outcome, the capability
\* check for every answer of the native side.
DevicesInit ==
    /\ os \in Platforms
    /\ ChatIdle
    /\ MigIdle
    /\ RulesIdle
    /\ ScreenIdle
    /\ \/ /\ probe \in ProbeOutcomes
          /\ \E d \in DevicesInputs : dev = DevInputs(d, QuietNative)
       \/ /\ probe = [kind |-> "nothing", devices |-> <<>>]
          /\ \E n \in Natives : dev = DevInputs(NoDevices, n)

DevicesNext ==
    \/ CallInferBackendType
    \/ CallGetDeviceOptions
    \/ CallGetAvailableDevices
    \/ CallCheckGpuSupport

DevicesSpec == DevicesInit /\ [][DevicesNext]_vars

\* Messages sent one after the other, with and without a loaded context,
\* every awaited step resolving or rejecting.
ChatInit ==
    /\ os \in Platforms
    /\ probe = [kind |-> "nothing", devices |-> <<>>]
    /\ MigIdle
    /\ RulesIdle
    /\ DevIdle
    /\ ScreenIdle
    /\ \E context \in BOOLEAN : chat = ChatStart(context)

ChatNext ==
    \/ HandleSendPress
    \/ ModelNotLoadedSettles
    \/ IsMultimodalEnabledSettles
    \/ AddMessageSettles
    \/ PrepareCompletionSettles
    \/ CompletionToken
    \/ CompletionSettles
    \/ UpdateMessageSettles
    \/ DeleteMessageSettles
    \/ AddSystemMessageSettles

ChatSpec == ChatInit /\ [][ChatNext]_vars

----------------------------------------------------------------------------
(* Properties of the schema migrator, checked under MigratorSpec *)

\* C1: migrating a migrated blob changes nothing: for every input blob x on
\* either platform, migrate(migrate(x)) equals migrate(x) field for field.
C1_Idempotent == pc = "twice" => m2 = m1

\* An unversioned blob that the first call does change (n_context renamed,
\* n_ctx nudged) has been migrated twice.
C1_Witness ==
    /\ pc = "twice"
    /\ Undefined(x, "version")
    /\ In("n_ctx", x) /\ x.n_ctx = 1024
    /\ m1.n_ctx = 2048
    /\ m1 # x

\* C2: whatever the starting version (absent, falsy, "0.0", "1.0", "2.0" or
\* an unknown tag), the returned version is the current schema version.
C2_VersionIsCurrent ==
    pc \in {"once", "twice"} =>
        /\ m1.st["version"] = "value"
        /\ m1.version = "2.0"

\* A blob with a tag no step knows has been migrated.
C2_Witness ==
    /\ pc = "once"
    /\ x.st["version"] = "value" /\ x.version = "3.0"
    /\ m1.version = "2.0"

\* The order of the version tags; a falsy tag counts as "0.0".
VersionRank(v) ==
    CASE v = "" -> 0 [] v = "0.0" -> 0 [] v = "1.0" -> 10 [] v = "2.0" -> 20
      [] v = "3.0" -> 30

\* Each migration step that fires stamps a strictly greater version.
StepsIncrease ==
    /\ chain[2] \in {"", "0.0"} => VersionRank(chain[3]) > VersionRank(chain[2])
    /\ chain[3] = "1.0" => VersionRank(chain[4]) > VersionRank(chain[3])

\* C3 as claimed: every step stamps a strictly greater version and the
\* returned version is never lower than the input's, for every input,
\* one tagged with a version newer than the current schema included.
C3_Original ==
    pc = "once" =>
        /\ StepsIncrease
        /\ VersionRank(chain[5]) >= VersionRank(chain[1])

\* C3 as amended: every step stamps a strictly greater version, and the
\* returned version is never lower than the input's for every input whose
\* tag is not newer than the current schema; a newer tag is stamped down to
\* the current version.
C3_MonotonicUpToCurrent ==
    pc = "once" =>
        /\ StepsIncrease
        /\ VersionRank(chain[1]) <= VersionRank("2.0")
              => VersionRank(chain[5]) >= VersionRank(chain[1])
        /\ VersionRank(chain[1]) > VersionRank("2.0") => chain[5] = "2.0"

\* An unversioned blob has walked the whole chain.
C3_Witness ==
    /\ pc = "once"
    /\ chain = <<"", "0.0", "1.0", "2.0", "2.0">>

\* C6: the migrated configuration is consistent per the compatibility
\* matrix: its cache_type_v is safe with its flash_attn_type on the backend
\* its devices resolve to, for every probe result.
C6_MigratedTripleSafe ==
    pc = "once" =>
        \A pr \in ProbeOutcomes :
            isCacheTypeVSafe(m1.cache_type_v, m1.flash_attn_type,
                             inferBackendType(DevicesOf(m1), os, pr)).safe

\* C7: the migrated value is a complete current-version ContextInitParams:
\* validateContextInitParams accepts migrateContextInitParams(x) for every x.
C7_MigratedIsValid == pc = "once" => validateContextInitParams(m1)

\* C12: for every partial parameter object p, on either platform,
\* validateContextInitParams(createContextInitParams(p)) is true.
C12_FactoryIsValid ==
    pc = "created" => validateContextInitParams(made)

\* The factory has completed a blob that lacks required fields.
C12_Witness ==
    /\ pc = "created"
    /\ ~In("n_threads", x) /\ ~In("n_ctx", x) /\ ~In("use_mmap", x)
    /\ ~validateContextInitParams(x)
    /\ validateContextInitParams(made)
    /\ made.n_threads = 4 /\ made.n_ctx = 2048

\* The blob has no version key, and has an n_context key.
UnversionedWithNContext ==
    /\ pc \in {"once", "twice"}
    /\ x.st["version"] = "absent"
    /\ In("n_context", x)

\* C13 as stated: migrating an unversioned blob that has n_context and no
\* n_ctx yields n_ctx equal to the old n_context value and no n_context
\* key; an n_ctx that is already present is kept.
C13_Original ==
    UnversionedWithNContext =>
        IF ~In("n_ctx", x)
        THEN /\ m1.st["n_ctx"] = "value"
             /\ m1.n_ctx = x.n_context
             /\ ~In("n_context", m1)
        ELSE /\ m1.st["n_ctx"] = "value"
             /\ m1.n_ctx = x.n_ctx

\* The context-size nudge of the step "1.0" -> "2.0".
Nudged(n) == IF n = 1024 THEN 2048 ELSE n

\* C13: migrating an unversioned blob that has n_context and no n_ctx
\* yields no n_context key and an n_ctx equal to the old n_context value,
\* except that 1024 has become 2048; an n_ctx that is already present is
\* not overwritten by n_context: it keeps its value, except that 1024 has
\* become 2048, and the n_context key stays in the result.
C13_RenameUpToNudge ==
    UnversionedWithNContext =>
        IF ~In("n_ctx", x)
        THEN /\ m1.st["n_ctx"] = "value"
             /\ m1.n_ctx = Nudged(x.n_context)
             /\ ~In("n_context", m1)
        ELSE /\ m1.st["n_ctx"] = "value"
             /\ m1.n_ctx = Nudged(x.n_ctx)
             /\ In("n_context", m1)
             /\ m1.n_context = x.n_context

\* An unversioned blob with n_context 4096 and no n_ctx has been migrated.
C13_Witness ==
    /\ UnversionedWithNContext
    /\ ~In("n_ctx", x) /\ x.n_context = 4096
    /\ m1.n_ctx = 4096 /\ ~In("n_context", m1)

\* The blob enters the chain at "0.0" (no version, a falsy one, or "0.0").
StartsAt00 ==
    Falsy(x, "version") \/ x.version = "0.0"

\* The blob enters the chain at "1.0".
StartsAt10 ==
    x.st["version"] = "value" /\ x.version = "1.0"

\* C14: for a blob starting at "0.0" or "1.0", no_gpu_devices = true yields
\* n_gpu_layers = 0 and devices undefined; no_gpu_devices = false, or absent
\* on a blob starting at "0.0", yields devices undefined and n_gpu_layers 99
\* only if it was unset or 0, any other value being preserved; in both
\* cases no_gpu_devices is retained in the result.
C14_NoGpuDevicesConverted ==
    (pc \in {"once", "twice"} /\ (StartsAt00 \/ StartsAt10)) =>
        /\ (In("no_gpu_devices", x) /\ x.no_gpu_devices) =>
                /\ m1.st["n_gpu_layers"] = "value" /\ m1.n_gpu_layers = 0
                /\ m1.st["devices"] = "undefined"
                /\ m1.st["no_gpu_devices"] = "value" /\ m1.no_gpu_devices
        /\ ((In("no_gpu_devices", x) /\ ~x.no_gpu_devices)
                \/ (~In("no_gpu_devices", x) /\ StartsAt00)) =>
                /\ m1.st["devices"] = "undefined"
                /\ m1.st["n_gpu_layers"] = "value"
                /\ m1.n_gpu_layers =
                        IF Undefined(x, "n_gpu_layers") \/ x.n_gpu_layers = 0
                        THEN 99 ELSE x.n_gpu_layers
                /\ m1.st["no_gpu_devices"] = "value" /\ ~m1.no_gpu_devices

\* A blob at "1.0" with the GPU enabled and 50 layers has been migrated.
C14_Witness ==
    /\ pc = "once"
    /\ StartsAt10
    /\ In("no_gpu_devices", x) /\ ~x.no_gpu_devices
    /\ x.st["n_gpu_layers"] = "value" /\ x.n_gpu_layers = 50
    /\ m1.n_gpu_layers = 50 /\ m1.st["devices"] = "undefined"
    /\ In("no_gpu_devices", m1)

\* The migrated blob went through the step "1.0" -> "2.0".
ThroughStep1to2 ==
    /\ pc \in {"once", "twice"}
    /\ StartsAt00 \/ StartsAt10

\* C21: in the step from "1.0" to "2.0" a boolean flash_attn = true yields
\* flash_attn_type auto on iOS and off on Android, false yields off on
\* both; with neither flash_attn nor flash_attn_type the result is the
\* platform default; an existing flash_attn_type is kept when there is no
\* flash_attn; kv_unified and n_parallel become true and 1 only when
\* absent; and flash_attn is retained.
C21_FlashAttnConverted ==
    ThroughStep1to2 =>
        /\ m1.st["flash_attn_type"] = "value"
        /\ m1.flash_attn_type =
                IF In("flash_attn", x)
                THEN (IF x.flash_attn
                      THEN (IF os = "ios" THEN "auto" ELSE "off")
                      ELSE "off")
                ELSE IF In("flash_attn_type", x) THEN x.flash_attn_type
                ELSE (IF os = "ios" THEN "auto" ELSE "off")
        /\ m1.st["kv_unified"] = "value"
        /\ m1.kv_unified = (IF In("kv_unified", x) THEN x.kv_unified ELSE TRUE)
        /\ m1.st["n_parallel"] = "value"
        /\ m1.n_parallel = (IF In("n_parallel", x) THEN x.n_parallel ELSE 1)
        /\ m1.st["flash_attn"] = x.st["flash_attn"]
        /\ m1.flash_attn = x.flash_attn

\* A blob at "1.0" with flash_attn = true and flash_attn_type "on", and with
\* the new parameters set by the user, has been migrated on Android.
C21_Witness ==
    /\ pc = "once"
    /\ os = "android"
    /\ StartsAt10
    /\ In("flash_attn", x) /\ x.flash_attn
    /\ In("flash_attn_type", x) /\ x.flash_attn_type = "on"
    /\ In("kv_unified", x) /\ ~x.kv_unified
    /\ m1.flash_attn_type = "off"
    /\ ~m1.kv_unified /\ m1.n_parallel = 4
    /\ In("flash_attn", m1)

\* C22: migrateContextInitParams changes n_ctx only as a one-time nudge:
\* for a blob starting below "2.0" an n_ctx of 1024 becomes 2048 and every
\* other n_ctx value is preserved; for a blob at "2.0" n_ctx is never
\* changed, so that 1024 chosen after the upgrade stays 1024 in every later
\* migration.
C22_NudgeOnce ==
    /\ (ThroughStep1to2 /\ x.st["n_ctx"] = "value") =>
            m1.st["n_ctx"] = "value" /\ m1.n_ctx = Nudged(x.n_ctx)
    /\ (pc \in {"once", "twice"} /\ x.st["version"] = "value" /\ x.version = "2.0") =>
            m1.st["n_ctx"] = x.st["n_ctx"] /\ m1.n_ctx = x.n_ctx
    /\ pc = "twice" =>
            m2.st["n_ctx"] = m1.st["n_ctx"] /\ m2.n_ctx = m1.n_ctx

\* A blob at "2.0" with n_ctx 1024 has been migrated twice and still has it.
C22_Witness ==
    /\ pc = "twice"
    /\ x.st["version"] = "value" /\ x.version = "2.0"
    /\ x.st["n_ctx"] = "value" /\ x.n_ctx = 1024
    /\ m1.n_ctx = 1024 /\ m2.n_ctx = 1024

\* C23 as stated: for every input blob whose use_mmap is absent or a
\* boolean, whatever its starting version, the migrated use_mmap is one of
\* "true", "false", "smart": absent becomes "smart" on Android and "true"
\* otherwise, true becomes "true", false becomes "false"; and an absent
\* use_mlock becomes false.
C23_Original ==
    pc \in {"once", "twice"} =>
        /\ (~In("use_mmap", x) \/ IsBooleanMmap(x)) =>
                /\ m1.st["use_mmap"] = "value"
                /\ m1.use_mmap \in {"true", "false", "smart"}
                /\ m1.use_mmap =
                        IF ~In("use_mmap", x)
                        THEN (IF os = "android" THEN "smart" ELSE "true")
                        ELSE IF x.use_mmap = "bool:true" THEN "true"
                        ELSE "false"
        /\ ~In("use_mlock", x) =>
                m1.st["use_mlock"] = "value" /\ m1.use_mlock = FALSE

\* C23: for every input blob that enters the chain at "0.0" (no version, a
\* falsy one, or "0.0") and whose use_mmap is absent or a boolean, the
\* migrated use_mmap is one of "true", "false", "smart": absent becomes
\* "smart" on Android and "true" otherwise, true becomes "true", false
\* becomes "false"; and an absent use_mlock becomes false.  A blob that
\* enters at a later version keeps its use_mmap and use_mlock as they are,
\* absent or boolean included.
C23_UseMmapTriStateFromLegacy ==
    pc \in {"once", "twice"} =>
        IF StartsAt00
        THEN /\ (~In("use_mmap", x) \/ IsBooleanMmap(x)) =>
                    /\ m1.st["use_mmap"] = "value"
                    /\ m1.use_mmap \in {"true", "false", "smart"}
                    /\ m1.use_mmap =
                            IF ~In("use_mmap", x)
                            THEN (IF os = "android" THEN "smart" ELSE "true")
                            ELSE IF x.use_mmap = "bool:true" THEN "true"
                            ELSE "false"
             /\ ~In("use_mlock", x) =>
                    m1.st["use_mlock"] = "value" /\ m1.use_mlock = FALSE
        ELSE /\ m1.st["use_mmap"] = x.st["use_mmap"]
             /\ m1.use_mmap = x.use_mmap
             /\ m1.st["use_mlock"] = x.st["use_mlock"]
             /\ m1.use_mlock = x.use_mlock

\* A blob without version, use_mmap and use_mlock has been migrated on iOS.
C23_Witness ==
    /\ pc = "once"
    /\ os = "ios"
    /\ x.st["version"] = "absent"
    /\ ~In("use_mmap", x) /\ ~In("use_mlock", x)
    /\ m1.use_mmap = "true" /\ m1.st["use_mlock"] = "value" /\ ~m1.use_mlock

\* The fields of ContextInitParams other than the optional devices.
SchemaFields ==
    {"version", "n_ctx", "n_batch", "n_ubatch", "n_threads", "cache_type_k",
     "cache_type_v", "n_gpu_layers", "use_mlock", "use_mmap",
     "flash_attn_type", "kv_unified", "n_parallel"}

\* C24: validateContextInitParams(v) returns true only if v contains every
\* field the current schema requires: version, n_ctx, n_batch, n_ubatch,
\* n_threads, cache_type_k, cache_type_v, n_gpu_layers, use_mlock, use_mmap,
\* flash_attn_type, kv_unified and n_parallel.
C24_ValidHasSchemaFields ==
    (pc = "validated" /\ checked) =>
        \A field \in SchemaFields : In(field, x)

\* C25: migrating a blob whose version is the current schema version is a
\* no-op: the returned value equals the input in every field.
C25_CurrentIsNoOp ==
    (pc \in {"once", "twice"} /\ x.st["version"] = "value"
        /\ x.version = CURRENT_CONTEXT_INIT_PARAMS_VERSION) =>
        m1 = x

\* A blob at "2.0" that still has n_context, n_ctx 1024, a boolean use_mmap
\* and no kv_unified has been migrated, and came back as it was.
C25_Witness ==
    /\ pc = "once"
    /\ x.st["version"] = "value" /\ x.version = "2.0"
    /\ In("n_context", x)
    /\ x.st["n_ctx"] = "value" /\ x.n_ctx = 1024
    /\ IsBooleanMmap(x)
    /\ ~In("kv_unified", x)
    /\ m1 = x

----------------------------------------------------------------------------
(* Properties of the rule engine, checked under RulesSpec *)

\* The compatibility matrix: f16/f32 always safe; a quantized type is safe
\* only with flash attention on or auto, on metal, cpu or blas.
MatrixSafe(cacheType, flashAttnType, backend) ==
    \/ cacheType \in {"f16", "f32"}
    \/ /\ flashAttnType \in {"on", "auto"}
       /\ backend \in {"metal", "cpu", "blas"}

\* C4: for all 8 x 3 x 5 combinations the verdict of isCacheTypeVSafe is
\* the compatibility matrix's.
C4_MatrixFidelity ==
    "isCacheTypeVSafe" \in rule.called =>
        rule.v.safe = MatrixSafe(rule.cacheType, rule.flashAttnType, rule.backend)

\* A quantized type has been checked with auto on opencl, and refused.
C4_Witness ==
    /\ "isCacheTypeVSafe" \in rule.called
    /\ rule.cacheType = "q8_0" /\ rule.flashAttnType = "auto" /\ rule.backend = "opencl"
    /\ ~rule.v.safe

\* C9: isCacheTypeKSafe returns {safe: true} for every input, and so
\* getAllowedCacheTypeKOptions never marks an option disabled.
C9_KAlwaysSafe ==
    /\ "isCacheTypeKSafe" \in rule.called => rule.k = Verdict(TRUE, {})
    /\ "getAllowedCacheTypeKOptions" \in rule.called =>
            \A i \in DOMAIN rule.kOptions : ~rule.kOptions[i].disabled

\* Both K operations have run on a triple the V rule refuses.
C9_Witness ==
    /\ {"isCacheTypeKSafe", "getAllowedCacheTypeKOptions"} \subseteq rule.called
    /\ rule.cacheType = "q4_0" /\ rule.flashAttnType = "off" /\ rule.backend = "opencl"
    /\ Len(rule.kOptions) = 8

\* A derived list has one entry per CacheType member, each with
\* disabled = ~safe and with the validator's reason exactly when disabled.
FaithfulList(options, forV) ==
    /\ Len(options) = 8
    /\ \A c \in CacheTypes :
        Cardinality({i \in DOMAIN options : options[i].value = c}) = 1
    /\ \A i \in DOMAIN options :
        LET verdict ==
                IF forV
                THEN isCacheTypeVSafe(options[i].value, rule.flashAttnType, rule.backend)
                ELSE isCacheTypeKSafe(options[i].value, rule.flashAttnType, rule.backend)
        IN  /\ options[i].disabled = ~verdict.safe
            /\ options[i].disabled => options[i].reason = verdict.reason
            /\ options[i].disabled <=> options[i].reason # {}

\* C10: for every (mode, backend) both list builders return exactly one
\* entry per CacheType member, with disabled the negation of the validator's
\* safe flag and the validator's reason exactly when disabled.
C10_ListsFaithful ==
    /\ "getAllowedCacheTypeVOptions" \in rule.called =>
            FaithfulList(rule.vOptions, TRUE)
    /\ "getAllowedCacheTypeKOptions" \in rule.called =>
            FaithfulList(rule.kOptions, FALSE)

\* Both lists have been built where the V list disables its quantized types.
C10_Witness ==
    /\ {"getAllowedCacheTypeVOptions", "getAllowedCacheTypeKOptions"} \subseteq rule.called
    /\ rule.flashAttnType = "auto" /\ rule.backend = "hexagon"
    /\ rule.vOptions[3].disabled /\ ~rule.vOptions[1].disabled

\* The reason texts that say flash attention is required, and those that
\* say OpenCL auto-disables flash attention.
ReasonsFlashAttnRequired ==
    {"Quantized V cache requires flash attention to be enabled"}

ReasonsOpenCLAutoDisables ==
    {"OpenCL auto-disables flash attention, quantized V cache will fail at runtime"}

\* A verdict carries a reason exactly when it is not safe.
ReasonIffUnsafe(verdict) ==
    IF verdict.safe THEN verdict.reason = {} ELSE Cardinality(verdict.reason) = 1

\* C11: every verdict of isCacheTypeVSafe and isCacheTypeKSafe has a
\* non-empty reason when safe is false and no reason when safe is true;
\* the reason for a quantized type with flash attention off says that
\* flash attention is required, and the reason on opencl with auto says
\* that OpenCL auto-disables flash attention.
C11_ReasonIffUnsafe ==
    /\ "isCacheTypeVSafe" \in rule.called =>
        /\ ReasonIffUnsafe(rule.v)
        /\ "" \notin rule.v.reason
        /\ (isQuantizedCacheType(rule.cacheType) /\ rule.flashAttnType = "off") =>
                rule.v.reason \subseteq ReasonsFlashAttnRequired
        /\ (isQuantizedCacheType(rule.cacheType) /\ rule.flashAttnType = "auto"
                /\ rule.backend = "opencl") =>
                rule.v.reason \subseteq ReasonsOpenCLAutoDisables
    /\ "isCacheTypeKSafe" \in rule.called =>
        /\ ReasonIffUnsafe(rule.k)
        /\ "" \notin rule.k.reason

\* Both validators have run on a quantized type under auto on hexagon, and
\* the V rule has refused it with a reason.
C11_Witness ==
    /\ {"isCacheTypeVSafe", "isCacheTypeKSafe"} \subseteq rule.called
    /\ rule.cacheType = "q5_1" /\ rule.flashAttnType = "auto" /\ rule.backend = "hexagon"
    /\ ~rule.v.safe /\ rule.v.reason # {}

----------------------------------------------------------------------------
(* Properties of the settings screen, checked under Spec *)

\* C5: in every state reachable through the selection surface the stored
\* triple (cache_type_v, flash_attn_type, backend of the stored devices) is
\* one that isCacheTypeVSafe reports safe.
C5_StoredTripleSafe ==
    isCacheTypeVSafe(contextInitParams.cache_type_v,
                     currentFlashAttnType(contextInitParams, os),
                     inferBackendType(DevicesOf(contextInitParams), os, probe)).safe

\* The flash-attention mode handleDeviceSelect read before it ran.
FlashAttnBefore ==
    IF last.faSt # "value" THEN DefaultFlashAttnType(os) ELSE last.fa

\* C8: after handleDeviceSelect, flash_attn_type is the option's default if
\* the mode configured before (or the platform default when unset) is not
\* in the option's valid_flash_attn_types, and is unchanged otherwise; the
\* Android gpu option selected under auto leaves it off.
C8_SelectSideEffect ==
    last.op = "handleDeviceSelect" =>
        /\ IF ~Includes(last.option.valid_flash_attn_types, FlashAttnBefore)
           THEN /\ contextInitParams.st["flash_attn_type"] = "value"
                /\ contextInitParams.flash_attn_type = last.option.default_flash_attn_type
           ELSE /\ contextInitParams.st["flash_attn_type"] = last.faSt
                /\ contextInitParams.flash_attn_type = last.fa
        /\ (os = "android" /\ last.option.id = "gpu" /\ FlashAttnBefore = "auto")
              => contextInitParams.flash_attn_type = "off"

\* The Android gpu option has been selected while the mode was auto.
C8_Witness ==
    /\ last.op = "handleDeviceSelect"
    /\ os = "android" /\ last.option.id = "gpu"
    /\ last.faSt = "value" /\ last.fa = "auto"
    /\ contextInitParams.flash_attn_type = "off"

\* C27: the fallback configuration is the conservative CPU / F16 one:
\* createDefaultContextInitParams() has cache_type_k and cache_type_v f16,
\* and on Android it has the devices, n_gpu_layers and flash_attn_type of
\* getDefaultDeviceConfig() (["CPU"], 0, off), so that inferBackendType
\* resolves it to cpu for every probe result.
C27_FallbackIsCpu ==
    contextInitParams = createDefaultContextInitParams(os) =>
        /\ contextInitParams.cache_type_k = "f16"
        /\ contextInitParams.cache_type_v = "f16"
        /\ os = "android" =>
            /\ DevicesOf(contextInitParams) = getDefaultDeviceConfig(os).devices
            /\ contextInitParams.n_gpu_layers = getDefaultDeviceConfig(os).n_gpu_layers
            /\ contextInitParams.flash_attn_type =
                    getDefaultDeviceConfig(os).default_flash_attn_type
            /\ inferBackendType(DevicesOf(contextInitParams), os, probe) = "cpu"

\* C29: once no inferBackendType call is in flight, currentBackend is the
\* backend inferBackendType resolves for the stored devices, for every
\* sequence of device changes and every order in which the calls complete.
C29_BackendFollowsDevices ==
    inflight = <<>> =>
        currentBackend = inferBackendType(DevicesOf(contextInitParams), os, probe)

\* C30: on Android, for every stored devices value and every probe result,
\* getCurrentDeviceId() is cpu exactly when inferBackendType(devices) is
\* cpu, hexagon exactly when it is hexagon, and gpu exactly when it is
\* opencl.
C30_DeviceIdMatchesBackend ==
    os = "android" =>
        LET id == getCurrentDeviceId(contextInitParams, os)
            backend == inferBackendType(DevicesOf(contextInitParams), os, probe)
        IN  /\ id = "cpu" <=> backend = "cpu"
            /\ id = "hexagon" <=> backend = "hexagon"
            /\ id = "gpu" <=> backend = "opencl"

----------------------------------------------------------------------------
(* Properties of the chat session hook, checked under ChatSpec *)

\* C28: handleSendPress with a loaded context sets inferencing before the
\* completion is awaited, and once it has settled, whichever awaited step
\* resolved or rejected, inferencing, isStreaming and isGenerating are all
\* false and keep-awake has been deactivated; with no loaded context the
\* three flags are left unchanged and no completion is started.
C28_FlagsClearedWhenSettled ==
    /\ (chat.pc = "completion" /\ chat.tokens = 0) => chat.flags.inferencing
    /\ (chat.pc = "settled" /\ chat.context) =>
            /\ chat.flags = Flags(FALSE, FALSE, FALSE)
            /\ chat.keepAwake # "activated"
    /\ (chat.pc = "settled" /\ ~chat.context) =>
            /\ chat.flags = chat.before
            /\ chat.completions = chat.completionsBefore

----------------------------------------------------------------------------
(* Properties of the device utilities, checked under DevicesSpec *)

MetalSpellings == {NameMetal, <<"m", "e", "t", "a", "l">>, <<"M", "E", "T", "A", "L">>}

CpuSpellings == {NameCPU, <<"c", "p", "u">>}

HtpNames == {NameHTP0, NameHTPAll}

\* The rules of the resolver for a first entry, tried in this order.
BackendOfEntry(entry, platform) ==
    IF entry \in MetalSpellings THEN "metal"
    ELSE IF entry \in CpuSpellings THEN "cpu"
    ELSE IF entry \in HtpNames THEN "hexagon"
    ELSE IF platform = "android" THEN "opencl"
    ELSE "cpu"

HasEntries(devices) == devices.defined /\ Len(devices.list) > 0

\* C15: with a non-empty devices list the result of inferBackendType is
\* decided by the first entry and the platform alone: "metal" in any letter
\* case gives metal, "cpu" gives cpu, an entry starting with "HTP" gives
\* hexagon, any other entry gives opencl on Android and cpu elsewhere; the
\* later entries and the probe have no part in it.
C15_FirstEntryDecides ==
    (dev.op = "inferBackendType" /\ HasEntries(dev.devices)) =>
        dev.backend = BackendOfEntry(dev.devices.list[1], os)

\* The resolver has answered metal for ["METAL", "Adreno"] on Android while
\* the probe reports a GPU.
C15_Witness ==
    /\ dev.op = "inferBackendType"
    /\ os = "android"
    /\ dev.devices = SomeDevices(<<(<<"M", "E", "T", "A", "L">>), NameAdreno>>)
    /\ probe.kind = "list" /\ Len(probe.devices) > 0
    /\ probe.devices[1].type = "gpu"
    /\ dev.backend = "metal"

\* getBackendDevicesInfo resolved to a list that holds a device of type gpu.
ProbeReportsGpu ==
    /\ probe.kind = "list"
    /\ \E i \in DOMAIN probe.devices : probe.devices[i].type = "gpu"

\* getBackendDevicesInfo resolved to a list that holds a device named HTP...
ProbeReportsHtp ==
    /\ probe.kind = "list"
    /\ \E i \in DOMAIN probe.devices : probe.devices[i].deviceName \in HtpNames

\* C16: with devices absent or empty inferBackendType gives metal on iOS,
\* whatever the probe; on Android it gives opencl exactly when the probe
\* reports a device of type gpu and cpu otherwise, a failed probe included.
C16_AutoResolution ==
    (dev.op = "inferBackendType" /\ ~HasEntries(dev.devices)) =>
        dev.backend =
            IF os = "ios" THEN "metal"
            ELSE IF ProbeReportsGpu THEN "opencl"
            ELSE "cpu"

\* The resolver has answered cpu on Android for an empty list while the
\* probe rejects.
C16_Witness ==
    /\ dev.op = "inferBackendType"
    /\ os = "android"
    /\ dev.devices = SomeDevices(<<>>)
    /\ probe.kind = "rejects"
    /\ dev.backend = "cpu"

HasOption(options, id) == \E i \in DOMAIN options : options[i].id = id

\* A list that holds the three flash attention modes, each once.
AllThreeModes(list) ==
    /\ Len(list) = 3
    /\ {list[i] : i \in DOMAIN list} = FlashAttnTypes

C19_DefaultModeIsValid ==
    dev.op = "getDeviceOptions" =>
        \A i \in DOMAIN dev.options :
            /\ Len(dev.options[i].valid_flash_attn_types) > 0
            /\ Includes(dev.options[i].valid_flash_attn_types,
                        dev.options[i].default_flash_attn_type)
            /\ (os = "android" /\ dev.options[i].id \in {"gpu", "hexagon"}) =>
                    dev.options[i].valid_flash_attn_types = <<"off">>

\* The Android catalog holds a gpu and a hexagon option.
C19_Witness ==
    /\ dev.op = "getDeviceOptions"
    /\ os = "android"
    /\ HasOption(dev.options, "gpu")
    /\ HasOption(dev.options, "hexagon")
    /\ HasOption(dev.options, "cpu")

\* The native GPU or CPU query is not there, or one of them rejects.
NativeQueriesFail ==
    \/ ~dev.native.hasGetGPUInfo
    \/ ~dev.native.hasGetCPUInfo
    \/ dev.native.gpuInfo.kind = "rejects"
    \/ dev.native.cpuInfo.kind = "rejects"

\* C20: a failing probe is never passed on: getAvailableDevices returns the
\* empty list when getBackendDevicesInfo rejects or returns nothing, and
\* the resolver and the catalog still return a backend and a catalog;
\* checkGpuSupport returns isSupported = false with a reason when the
\* native GPU/CPU queries are unavailable or reject; and every result of
\* checkGpuSupport has a reason exactly when isSupported is false.
C20_ProbeFailureContained ==
    /\ (dev.op = "getAvailableDevices" /\ probe.kind \in {"rejects", "nothing"}) =>
            dev.available = <<>>
    /\ (dev.op = "inferBackendType" /\ probe.kind = "rejects") =>
            dev.backend \in BackendTypes
    /\ (dev.op = "getDeviceOptions" /\ probe.kind = "rejects") =>
            /\ Len(dev.options) >= 1
            /\ os = "android" => Len(dev.options) = 1 /\ dev.options[1].id = "cpu"
    /\ dev.op = "checkGpuSupport" =>
            /\ (dev.gpu.reason # {}) <=> ~dev.gpu.isSupported
            /\ "" \notin dev.gpu.reason
            /\ (os = "android" /\ NativeQueriesFail) =>
                    ~dev.gpu.isSupported /\ dev.gpu.reason # {}

\* checkGpuSupport has run on Android where the GPU is an Adreno and the
\* CPU lacks dotprod: not supported, for missing CPU features.
C20_Witness ==
    /\ dev.op = "checkGpuSupport"
    /\ os = "android"
    /\ dev.native.hasGetGPUInfo /\ dev.native.hasGetCPUInfo
    /\ dev.native.gpuInfo = [kind |-> "info", hasAdreno |-> "true"]
    /\ dev.native.cpuInfo = [kind |-> "info", hasI8mm |-> "true", hasDotProd |-> "absent"]
    /\ ~dev.gpu.isSupported
    /\ dev.gpu.reason = {"missing_cpu_features"}

====
